---- MODULE Spec2Model ----
(***************************************************************************)
(* The asynchronous media-job pipeline of the subtitle editor: the         *)
(* Orchestrator's route handlers (Next.js), the persisted VideoProject     *)
(* records (Prisma), the Worker's background tasks (FastAPI) and the       *)
(* webhooks that report their results.                                     *)
(*                                                                         *)
(* Every `await` of a handler that touches the database or the Worker is a *)
(* point where other handlers may run, so a handler with several such      *)
(* awaits is modelled as several steps of one request slot.  A handler     *)
(* whose only awaits are findUnique followed by one update is one step:    *)
(* update itself fails when the record is gone, which is the only thing    *)
(* another handler could change in between that the handler would notice.  *)
(***************************************************************************)
EXTENDS Integers, Sequences, FiniteSets, Bags, TLC

VARIABLES
    db,            \* the VideoProject table: id -> record, for the ids that exist
    usedIds,       \* ids the table has ever handed out (ids are never reused)
    deploy,        \* which version of the render and transcribe routes is deployed
    reqs,          \* bag of Orchestrator handler invocations suspended at an await
    jobs,          \* bag of Worker background tasks
    poll,          \* the refs and timer of the editor's filmstrip poller
    editor,        \* the editor's status poller: React state, timers, requests
    calc,          \* the last call of a frame-count or style function
    tmp            \* the Worker's temporary directory and the tasks that use it

vars == <<db, usedIds, deploy, reqs, jobs, poll, editor, calc, tmp>>

\* ---------------------------------------------------------------- bounds
\* Video ids.  Handlers address one record by id and share nothing else.
Vids == {"v1"}
\* Handler invocations that can be suspended at an await at the same time.
MaxReqs == 1
\* Background tasks the Worker can hold at the same time.
MaxJobs == 2

\* ---------------------------------------------------------------- values
\* An optional value: None is null (in a record) or an absent field (in a
\* JSON body or a Prisma `data` object); Some(x) is the value x.
None == {}
Some(x) == {x}
The(o) == CHOOSE x \in o : TRUE

Status == {"uploading", "transcribing", "ready", "rendering", "completed", "failed"}

\* Caption entries; times are in milliseconds.
Caption(id, start, end, text) == [id |-> id, start |-> start, end |-> end, text |-> text]

Hi == Caption(1, 0, 3500, "Hi")

mockSubtitles ==
    << Caption(1, 0, 3500, "Ola, bem-vindo ao video"),
       Caption(2, 3500, 7200, "Hoje vamos falar sobre legendas"),
       Caption(3, 7200, 11000, "Vendo essas DIVISOES entre os paises arabes"),
       Caption(4, 11000, 14500, "E possivel editar texto e estilo"),
       Caption(5, 14500, 18000, "Clique em qualquer legenda para editar"),
       Caption(6, 18000, 22000, "Use a aba Styles para mudar cores e fontes"),
       Caption(7, 22000, 25500, "As mudancas aparecem em tempo real"),
       Caption(8, 25500, 29000, "Voce pode adicionar mais legendas facilmente") >>

\* What speech recognition can return: no segment, or one.
Transcripts == { <<>>, <<Hi>> }

\* str(e) of the exception a Worker task caught.  Some exceptions (a timeout
\* of the HTTP client, a bare Exception()) have an empty message.
ErrorStrings == {"", "error"}

\* ---------------------------------------------------------------- records
Fields == {"status", "subtitles", "outputUrl", "filmstripUrl", "filmstripMetadata"}

\* The record prisma.videoProject.create writes at upload.
NewVideo ==
    [status |-> "ready", subtitles |-> None, outputUrl |-> None,
     filmstripUrl |-> None, filmstripMetadata |-> None]

\* A Prisma `data` object: None leaves the column alone, Some(x) sets it to x.
NoData == [f \in Fields |-> None]

Exists(id) == id \in DOMAIN db

\* prisma.videoProject.update({where: {id}, data}) on an existing record.
Update(table, id, data) ==
    [table EXCEPT ![id] = [f \in Fields |-> IF data[f] = None THEN @[f] ELSE The(data[f])]]

\* JavaScript truthiness of a string field of a JSON body.
Truthy(o) == o # None /\ The(o) # ""

\* ---------------------------------------------------------------- bags
\* Handler invocations and background tasks have no identity of their own:
\* two of them in the same state are interchangeable, so each collection is
\* a bag of records.
Add(bag, x) == bag (+) SetToBag({x})
Remove(bag, x) == bag (-) SetToBag({x})
Replace(bag, x, y) == Add(Remove(bag, x), y)

\* A handler invocation suspended at an await, or whose response is on its way
\* to the client.  `wrote` says that the handler's in-progress update has
\* resolved, `thrown` is what its catch block caught, `code` is the HTTP
\* status it returned (0: none yet).
NewReq(kind, id, pc) ==
    [kind |-> kind, vid |-> id, pc |-> pc, wrote |-> FALSE, thrown |-> "", code |-> 0]

\* The handler returns NextResponse.json(..., {status: code}).
Return(r, code) == [r EXCEPT !.pc = "returned", !.code = code]

CanAccept == BagCardinality(reqs) < MaxReqs

CanQueue == BagCardinality(jobs) < MaxJobs

\* How many jobs of a type the Worker has accepted for a video and not finished.
JobsInProgress(type, id) ==
    BagCardinality([j \in {k \in BagToSet(jobs) : k.type = type /\ k.vid = id} |-> jobs[j]])

\* A Worker background task.  `sent` is the status of the webhook it is sending
\* or has sent, `error`, `subtitles`, `outputUrl`, `filmstripUrl` and
\* `metadata` are that webhook's fields, `resp` is the HTTP status the
\* Orchestrator answered (0: no answer).  `superseding` records that the task
\* was accepted while an earlier task of the same type for the same video was
\* unfinished.
NewJob(type, id) ==
    [type |-> type, vid |-> id, pc |-> "queued", sent |-> "", error |-> None,
     subtitles |-> None, outputUrl |-> None, filmstripUrl |-> None,
     metadata |-> None, resp |-> 0,
     superseding |-> JobsInProgress(type, id) > 0]

\* ---------------------------------------------------------------- Worker auth
\* An Authorization header is absent (None) or a string.  A string is the
\* sequence of its pieces, where the piece "Bearer " is the separator
\* verify_secret splits at and the other pieces are tokens without it.
WorkerSecret == "secret"
Bearer(token) == Some(<<"Bearer ", token>>)

\* authorization.split("Bearer ")[1] of a string that starts with "Bearer ":
\* what stands between the first separator and the next one (or the end).
SplitBearer1(h) ==
    LET rest == SubSeq(h, 2, Len(h))
        seps == {i \in 1..Len(rest) : rest[i] = "Bearer "}
        stop == IF seps = {} THEN Len(rest) + 1
                ELSE CHOOSE i \in seps : \A k \in seps : i <= k
    IN SubSeq(rest, 1, stop - 1)

\* verify_secret fails with 401 without a header, without the "Bearer "
\* prefix, or when the split token differs from the secret.
verify_secret(authorization) ==
    /\ authorization # None
    /\ The(authorization) # <<>>
    /\ Head(The(authorization)) = "Bearer "
    /\ SplitBearer1(The(authorization)) = <<WorkerSecret>>

\* ---------------------------------------------------------------- poller state
\* Times are counted in 1/Scale ms, so that every interval the backoff
\* produces below the cap (4147.2, 4976.64) is an integer.
Scale == 100

\* POLLING_CONFIG.
INITIAL_INTERVAL == 2000 * Scale
MAX_INTERVAL == 5000 * Scale
\* BACKOFF_MULTIPLIER 1.2 as tenths.
BACKOFF_MULTIPLIER_TENTHS == 12
MAX_DURATION == 300000 * Scale
MAX_RETRIES == 90

\* useFilmstrip when its effects have run: initialize waits for the answer of
\* the cache check; no timer, no start time, no attempts, the initial
\* interval, the component mounted.  `now` is the clock (Date.now()), `timer`
\* the deadline of pollingIntervalRef (None: no timer), `inflight` the GET
\* requests of checkFilmstripReady that have not been answered, `slow` how
\* often the clock moved on while one was unanswered, `requests`
\* the GET requests the polling session has sent, `errors` how many of the
\* answers were neither 200 nor 404, `outage` whether the session runs while
\* the route cannot be reached at all, `status` and `error` are the fields of
\* filmstripState.  `cache`, `extract` and `generate` are where initialize is:
\* the cache check, extractFramesWithCanvas, the generation request; `runs`
\* counts the times the effect that calls initialize has run again.
PollIdle ==
    [now |-> 0, started |-> FALSE, mounted |-> TRUE, timer |-> None,
     pollingStartTime |-> 0, pollingAttempts |-> 0,
     currentInterval |-> INITIAL_INTERVAL, inflight |-> 0, slow |-> 0,
     requests |-> 0,
     errors |-> 0, outage |-> FALSE, status |-> "loading", error |-> None,
     cache |-> "pending", extract |-> "none", generate |-> "none", runs |-> 0]

\* ---------------------------------------------------------------- editor state
\* Queued React state updates of EditorClient that no render has applied: per
\* state variable None (no update) or Some(the last value set).
NoPending ==
    [pollingInterval |-> None, isTranscribing |-> None, isRendering |-> None,
     video |-> None]

\* EditorClient when it has mounted with a video the upload handler created.
\* `pollingInterval`, `isTranscribing`, `isRendering` and `video` (its status)
\* are the React state of the last render, `pending` the queued updates,
\* `timers` the setInterval timers that are active (each with the video
\* status its callback closed over and the operation that started it), `created` how many were ever created,
\* `posts` the POST requests of transcribeVideo and renderVideo that are not
\* answered (each with the pollingInterval and the video status its closure
\* holds), `gets` the timers whose callback waits for its GET.
EditorIdle ==
    [mounted |-> TRUE, pollingInterval |-> None, isTranscribing |-> FALSE,
     isRendering |-> FALSE, video |-> "ready", pending |-> NoPending,
     timers |-> {}, created |-> 0, posts |-> EmptyBag, gets |-> {}]

\* ---------------------------------------------------------------- calc state
\* No function has been called.
CalcIdle == [op |-> "none"]

\* ---------------------------------------------------------------- temporary files
\* The Worker has accepted no task and its temporary directory is empty.
\* `files` holds <<path, id>> for each file that exists, id being the task
\* that wrote it last; `tasks` are the background tasks that have not ended.
TmpIdle == [files |-> {}, tasks |-> {}, created |-> 0]

\* ---------------------------------------------------------------- Init
\* The repository holds two versions of POST .../render and of POST
\* .../transcribe: one does the media work in the handler ("local"), one
\* dispatches it to the Worker ("worker").  A deployment serves one of each.
Versions == {"local", "worker"}

Init ==
    /\ db = [v \in {} |-> NewVideo]
    /\ usedIds = {}
    /\ deploy \in [render : Versions, transcribe : Versions]
    /\ reqs = EmptyBag
    /\ jobs = EmptyBag
    /\ poll = PollIdle
    /\ editor = EditorIdle
    /\ calc = CalcIdle
    /\ tmp = TmpIdle

\* ---------------------------------------------------------------- dispatch headers
\* The Authorization header of the dispatch call the upload handler fires: its
\* headers object holds Content-Type only.
UploadAuthorization == None

\* The Authorization header of the dispatch calls of the render, transcribe
\* and filmstrip-generate handlers: `Bearer ${workerSecret}`.
DispatchAuthorization == Bearer(WorkerSecret)

\* ---------------------------------------------------------------- upload
\* POST /api/videos/upload: create the record with status "ready", then fire
\* the filmstrip dispatch without awaiting it.  That call carries no
\* Authorization header, so the Worker answers 401 and starts nothing; the
\* handler looks at neither the answer nor a network error.
Upload(id) ==
    /\ id \in Vids \ usedIds
    /\ usedIds' = usedIds \cup {id}
    /\ db' = [v \in DOMAIN db \cup {id} |-> IF v = id THEN NewVideo ELSE db[v]]
    /\ IF verify_secret(UploadAuthorization) /\ CanQueue
         THEN jobs' = Add(jobs, NewJob("filmstrip", id))
         ELSE jobs' = jobs
    /\ UNCHANGED <<deploy, reqs, poll, editor, calc, tmp>>

\* ---------------------------------------------------------------- render (Worker)
\* POST /api/videos/[id]/render, the Worker version.

\* findUnique and the subtitles check; 404 and 400 return at once.
RenderFind(id) ==
    /\ deploy.render = "worker"
    /\ CanAccept
    /\ Exists(id)
    /\ db[id].subtitles # None /\ Len(The(db[id].subtitles)) # 0
    /\ reqs' = Add(reqs, NewReq("render", id, "update"))
    /\ UNCHANGED <<db, usedIds, deploy, jobs, poll, editor, calc, tmp>>

\* RenderSetRendering without the update: the handler goes on to the dispatch
\* call with nothing persisted.
RenderSetRendering_skip(r) ==
    /\ r.kind = "render" /\ r.pc = "update"
    /\ reqs' = Replace(reqs, r, [r EXCEPT !.pc = "fetch"])
    /\ UNCHANGED <<db, usedIds, deploy, jobs, poll, editor, calc, tmp>>

\* update status to "rendering"; it throws when the record is gone.
RenderSetRendering(r) ==
    /\ r.kind = "render" /\ r.pc = "update"
    /\ IF Exists(r.vid)
         THEN /\ db' = Update(db, r.vid, [NoData EXCEPT !.status = Some("rendering")])
              /\ reqs' = Replace(reqs, r, [r EXCEPT !.pc = "fetch", !.wrote = TRUE])
         ELSE /\ db' = db
              /\ reqs' = Replace(reqs, r, [r EXCEPT !.pc = "catch", !.thrown = "db"])
    /\ UNCHANGED <<usedIds, deploy, jobs, poll, editor, calc, tmp>>

\* Why the dispatch call can fail: WORKER_URL or WORKER_SECRET unset, fetch
\* rejecting, or the Worker answering non-2xx.
DispatchFailures == {"not_configured", "network_error", "non_2xx"}

\* The Worker accepted the call: it queued the background task and answered
\* 2xx, and the handler returns "processing".
RenderFetchOk(r) ==
    /\ r.kind = "render" /\ r.pc = "fetch"
    /\ verify_secret(DispatchAuthorization)
    /\ CanQueue
    /\ jobs' = Add(jobs, NewJob("render", r.vid))
    /\ reqs' = Replace(reqs, r, Return(r, 200))
    /\ UNCHANGED <<db, usedIds, deploy, poll, editor, calc, tmp>>

\* The dispatch failed: the handler throws into its catch block.
RenderFetchFail(r) ==
    /\ r.kind = "render" /\ r.pc = "fetch"
    /\ \E f \in DispatchFailures :
         reqs' = Replace(reqs, r, [r EXCEPT !.pc = "catch", !.thrown = "dispatch"])
    /\ UNCHANGED <<db, usedIds, deploy, jobs, poll, editor, calc, tmp>>

\* RenderCatchData of a catch block that only answers 500.
RenderCatchData_none == NoData

\* What the catch block of the render handler writes.
RenderCatchData == [NoData EXCEPT !.status = Some("failed")]

\* catch: update status to "failed" (an error of that update is only logged)
\* and return 500.
RenderCatch(r) ==
    /\ r.kind = "render" /\ r.pc = "catch"
    /\ db' = IF Exists(r.vid) THEN Update(db, r.vid, RenderCatchData) ELSE db
    /\ reqs' = Replace(reqs, r, Return(r, 500))
    /\ UNCHANGED <<usedIds, deploy, jobs, poll, editor, calc, tmp>>

\* ---------------------------------------------------------------- render (local)
\* POST /api/videos/[id]/render, the version that runs ffmpeg in the handler.
RenderLocalFind(id) ==
    /\ deploy.render = "local"
    /\ CanAccept
    /\ Exists(id)
    /\ db[id].subtitles # None /\ Len(The(db[id].subtitles)) # 0
    /\ reqs' = Add(reqs, NewReq("renderLocal", id, "work"))
    /\ UNCHANGED <<db, usedIds, deploy, jobs, poll, editor, calc, tmp>>

\* Where the local render puts its output.
LocalOutputUrl(id) == "/uploads/rendered/" \o id \o "_rendered.mp4"

\* ffmpeg ended: update outputUrl and status "completed" and return.
RenderLocalDone(r) ==
    /\ r.kind = "renderLocal" /\ r.pc = "work"
    /\ IF Exists(r.vid)
         THEN /\ db' = Update(db, r.vid,
                          [NoData EXCEPT !.outputUrl = Some(Some(LocalOutputUrl(r.vid))),
                                         !.status = Some("completed")])
              /\ reqs' = Replace(reqs, r, Return(r, 200))
         ELSE /\ db' = db
              /\ reqs' = Replace(reqs, r, [r EXCEPT !.pc = "catch", !.thrown = "db"])
    /\ UNCHANGED <<usedIds, deploy, jobs, poll, editor, calc, tmp>>

\* Writing the SRT file or running ffmpeg threw.
RenderLocalFail(r) ==
    /\ r.kind = "renderLocal" /\ r.pc = "work"
    /\ reqs' = Replace(reqs, r, [r EXCEPT !.pc = "catch", !.thrown = "work"])
    /\ UNCHANGED <<db, usedIds, deploy, jobs, poll, editor, calc, tmp>>

RenderLocalCatch(r) ==
    /\ r.kind = "renderLocal" /\ r.pc = "catch"
    /\ db' = IF Exists(r.vid)
               THEN Update(db, r.vid, [NoData EXCEPT !.status = Some("failed")])
               ELSE db
    /\ reqs' = Replace(reqs, r, Return(r, 500))
    /\ UNCHANGED <<usedIds, deploy, jobs, poll, editor, calc, tmp>>

\* ---------------------------------------------------------------- transcribe (local)
\* POST /api/videos/[id]/transcribe, the version that calls Whisper in the handler.
TranscribeFind(id) ==
    /\ deploy.transcribe = "local"
    /\ CanAccept
    /\ Exists(id)
    /\ reqs' = Add(reqs, NewReq("transcribeLocal", id, "update"))
    /\ UNCHANGED <<db, usedIds, deploy, jobs, poll, editor, calc, tmp>>

TranscribeSetTranscribing(r) ==
    /\ r.kind = "transcribeLocal" /\ r.pc = "update"
    /\ IF Exists(r.vid)
         THEN /\ db' = Update(db, r.vid, [NoData EXCEPT !.status = Some("transcribing")])
              /\ reqs' = Replace(reqs, r, [r EXCEPT !.pc = "work", !.wrote = TRUE])
         ELSE /\ db' = db
              /\ reqs' = Replace(reqs, r, [r EXCEPT !.pc = "catch", !.thrown = "db"])
    /\ UNCHANGED <<usedIds, deploy, jobs, poll, editor, calc, tmp>>

\* Audio extraction and Whisper ended: update subtitles and status "ready".
TranscribeDone(r) ==
    /\ r.kind = "transcribeLocal" /\ r.pc = "work"
    /\ IF Exists(r.vid)
         THEN /\ \E t \in Transcripts :
                   db' = Update(db, r.vid,
                            [NoData EXCEPT !.subtitles = Some(Some(t)), !.status = Some("ready")])
              /\ reqs' = Replace(reqs, r, Return(r, 200))
         ELSE /\ db' = db
              /\ reqs' = Replace(reqs, r, [r EXCEPT !.pc = "catch", !.thrown = "db"])
    /\ UNCHANGED <<usedIds, deploy, jobs, poll, editor, calc, tmp>>

TranscribeFail(r) ==
    /\ r.kind = "transcribeLocal" /\ r.pc = "work"
    /\ reqs' = Replace(reqs, r, [r EXCEPT !.pc = "catch", !.thrown = "work"])
    /\ UNCHANGED <<db, usedIds, deploy, jobs, poll, editor, calc, tmp>>

TranscribeCatch(r) ==
    /\ r.kind = "transcribeLocal" /\ r.pc = "catch"
    /\ db' = IF Exists(r.vid)
               THEN Update(db, r.vid, [NoData EXCEPT !.status = Some("failed")])
               ELSE db
    /\ reqs' = Replace(reqs, r, Return(r, 500))
    /\ UNCHANGED <<usedIds, deploy, jobs, poll, editor, calc, tmp>>

\* ---------------------------------------------------------------- transcribe (Worker)
\* POST /api/videos/[id]/transcribe, the Worker version of the worker guide.
TranscribeDispatchFind(id) ==
    /\ deploy.transcribe = "worker"
    /\ CanAccept
    /\ Exists(id)
    /\ reqs' = Add(reqs, NewReq("transcribe", id, "update"))
    /\ UNCHANGED <<db, usedIds, deploy, jobs, poll, editor, calc, tmp>>

\* update status to "transcribing"; when it throws, the catch block returns
\* 500 and writes nothing.
TranscribeDispatchSetTranscribing(r) ==
    /\ r.kind = "transcribe" /\ r.pc = "update"
    /\ IF Exists(r.vid)
         THEN /\ db' = Update(db, r.vid, [NoData EXCEPT !.status = Some("transcribing")])
              /\ reqs' = Replace(reqs, r, [r EXCEPT !.pc = "fetch", !.wrote = TRUE])
         ELSE /\ db' = db
              /\ reqs' = Replace(reqs, r, Return([r EXCEPT !.thrown = "db"], 500))
    /\ UNCHANGED <<usedIds, deploy, jobs, poll, editor, calc, tmp>>

\* The Worker accepted the call and queued the background task.
TranscribeDispatchFetchOk(r) ==
    /\ r.kind = "transcribe" /\ r.pc = "fetch"
    /\ verify_secret(DispatchAuthorization)
    /\ CanQueue
    /\ jobs' = Add(jobs, NewJob("transcription", r.vid))
    /\ reqs' = Replace(reqs, r, Return(r, 200))
    /\ UNCHANGED <<db, usedIds, deploy, poll, editor, calc, tmp>>

\* The call failed.  A non-2xx answer is not looked at and the handler returns
\* "processing"; an unset variable or a rejected fetch reaches the catch block,
\* which returns 500.  Neither writes the record.
TranscribeDispatchFetchFail(r) ==
    /\ r.kind = "transcribe" /\ r.pc = "fetch"
    /\ \E f \in DispatchFailures :
         reqs' = Replace(reqs, r,
                   IF f = "non_2xx" THEN Return(r, 200)
                   ELSE Return([r EXCEPT !.thrown = "dispatch"], 500))
    /\ UNCHANGED <<db, usedIds, deploy, jobs, poll, editor, calc, tmp>>

\* The response of a handler reaches the client.
Respond(r) ==
    /\ r.pc = "returned"
    /\ reqs' = Remove(reqs, r)
    /\ UNCHANGED <<db, usedIds, deploy, jobs, poll, editor, calc, tmp>>

\* ---------------------------------------------------------------- record routes
\* The caption entry an edit in the editor saves.
Edited == Caption(1, 0, 3500, "Hi!")

\* JSON bodies of PATCH /api/videos/[id].  The handler passes the body to
\* update as `data`, so a body may name any column of the record.
PatchBodies ==
    { [NoData EXCEPT !.subtitles = Some(Some(<<Edited>>))],
      [NoData EXCEPT !.subtitles = Some(None)],
      [NoData EXCEPT !.status = Some("completed")],
      [NoData EXCEPT !.outputUrl = Some(Some("/uploads/other.mp4"))] }

\* PATCH /api/videos/[id]: update the record with the request body.
Patch(id, body) ==
    /\ Exists(id)
    /\ db' = Update(db, id, body)
    /\ UNCHANGED <<usedIds, deploy, reqs, jobs, poll, editor, calc, tmp>>

\* DELETE /api/videos/[id].
Delete(id) ==
    /\ Exists(id)
    /\ db' = [v \in DOMAIN db \ {id} |-> db[v]]
    /\ UNCHANGED <<usedIds, deploy, reqs, jobs, poll, editor, calc, tmp>>

\* POST /api/videos/[id]/mock-subtitles: the mock caption track and "ready".
MockSubtitles(id) ==
    /\ Exists(id)
    /\ db' = Update(db, id,
               [NoData EXCEPT !.subtitles = Some(Some(mockSubtitles)), !.status = Some("ready")])
    /\ UNCHANGED <<usedIds, deploy, reqs, jobs, poll, editor, calc, tmp>>

\* ---------------------------------------------------------------- Worker tasks
\* Where the Worker's upload_to_storage puts a rendered video.
WorkerOutputUrl(id) == "https://cdn.example.com/videos/" \o id \o "_rendered.mp4"

\* process_transcription / process_rendering up to the webhook: every step
\* succeeded and the task posts "completed" with its result.
JobSucceed(j) ==
    /\ j.pc = "queued"
    /\ \/ /\ j.type = "transcription"
          /\ \E t \in Transcripts :
               jobs' = Replace(jobs, j, [j EXCEPT !.pc = "notify", !.sent = "completed",
                                                  !.subtitles = Some(t)])
       \/ /\ j.type = "render"
          /\ jobs' = Replace(jobs, j, [j EXCEPT !.pc = "notify", !.sent = "completed",
                                                !.outputUrl = Some(WorkerOutputUrl(j.vid))])
    /\ UNCHANGED <<db, usedIds, deploy, reqs, poll, editor, calc, tmp>>

\* A step raised: the except block posts "failed" with str(e).
JobFail(j) ==
    /\ j.pc = "queued"
    /\ j.type \in {"transcription", "render"}
    /\ \E e \in ErrorStrings :
         jobs' = Replace(jobs, j, [j EXCEPT !.pc = "notify", !.sent = "failed", !.error = Some(e)])
    /\ UNCHANGED <<db, usedIds, deploy, reqs, poll, editor, calc, tmp>>

\* The JSON body of the webhook a task is posting.
WebhookBody(job) ==
    [videoId |-> job.vid, status |-> job.sent, error |-> job.error,
     subtitles |-> job.subtitles, outputUrl |-> job.outputUrl,
     filmstripUrl |-> job.filmstripUrl, metadata |-> job.metadata]

\* ---------------------------------------------------------------- webhooks
\* TranscriptionWebhookData that flips the status and leaves the track alone.
TranscriptionWebhookData_statusOnly(body) ==
    IF Truthy(body.error)
      THEN [NoData EXCEPT !.status = Some("failed")]
      ELSE [NoData EXCEPT !.status = Some("ready")]

\* POST /api/webhooks/transcription: the `data` of the update it performs.
TranscriptionWebhookData(body) ==
    IF Truthy(body.error)
      THEN [NoData EXCEPT !.status = Some("failed")]
      ELSE [NoData EXCEPT !.subtitles = IF body.subtitles = None THEN None ELSE Some(body.subtitles),
                          !.status = Some("ready")]

\* TranscriptionWebhookEffect that appends the reported entries to the track.
TranscriptionWebhookEffect_append(table, body) ==
    IF body.videoId \in DOMAIN table
      THEN IF Truthy(body.error) \/ body.subtitles = None
             THEN Update(table, body.videoId, TranscriptionWebhookData(body))
             ELSE LET old == table[body.videoId].subtitles
                      prior == IF old = None THEN <<>> ELSE The(old)
                  IN Update(table, body.videoId,
                       [NoData EXCEPT !.subtitles = Some(Some(prior \o The(body.subtitles))),
                                      !.status = Some("ready")])
      ELSE table

\* TranscriptionWebhookEffect of a handler that reads the record first and
\* applies a report only to a video that is being transcribed.
TranscriptionWebhookEffect_ifTranscribing(table, body) ==
    IF body.videoId \in DOMAIN table /\ table[body.videoId].status = "transcribing"
      THEN Update(table, body.videoId, TranscriptionWebhookData(body))
      ELSE table

\* The record table after the handler ran on `body`.
TranscriptionWebhookEffect(table, body) ==
    IF body.videoId \in DOMAIN table
      THEN Update(table, body.videoId, TranscriptionWebhookData(body))
      ELSE table

\* Its HTTP status: 500 when update throws, and when the log line after the
\* update reads subtitles.length of an absent list; 200 otherwise, also for a
\* reported error.
TranscriptionWebhookResp(table, body) ==
    IF body.videoId \notin DOMAIN table THEN 500
    ELSE IF ~Truthy(body.error) /\ body.subtitles = None THEN 500
    ELSE 200

\* RenderWebhookData of a handler that stores the URL and leaves the status.
RenderWebhookData_urlOnly(body) ==
    IF Truthy(body.error)
      THEN NoData
      ELSE [NoData EXCEPT !.outputUrl = IF body.outputUrl = None THEN None ELSE Some(body.outputUrl)]

\* POST /api/webhooks/render-complete: the `data` of the update it performs.
RenderWebhookData(body) ==
    IF Truthy(body.error)
      THEN [NoData EXCEPT !.status = Some("failed")]
      ELSE [NoData EXCEPT !.outputUrl = IF body.outputUrl = None THEN None ELSE Some(body.outputUrl),
                          !.status = Some("completed")]

\* RenderWebhookEffect that leaves a record alone once it is "failed".
RenderWebhookEffect_keepFailed(table, body) ==
    IF body.videoId \in DOMAIN table /\ table[body.videoId].status # "failed"
      THEN Update(table, body.videoId, RenderWebhookData(body))
      ELSE table

\* The record table after the render handler ran on `body`.
RenderWebhookEffect(table, body) ==
    IF body.videoId \in DOMAIN table
      THEN Update(table, body.videoId, RenderWebhookData(body))
      ELSE table

RenderWebhookResp(table, body) ==
    IF body.videoId \notin DOMAIN table THEN 500 ELSE 200

\* The Worker's POST reaches the transcription webhook and is answered.
TranscriptionWebhook(j) ==
    /\ j.type = "transcription" /\ j.pc = "notify"
    /\ db' = TranscriptionWebhookEffect(db, WebhookBody(j))
    /\ jobs' = Replace(jobs, j, [j EXCEPT !.pc = "notified",
                                          !.resp = TranscriptionWebhookResp(db, WebhookBody(j))])
    /\ UNCHANGED <<usedIds, deploy, reqs, poll, editor, calc, tmp>>

\* The Worker's POST reaches the render webhook and is answered.
RenderWebhook(j) ==
    /\ j.type = "render" /\ j.pc = "notify"
    /\ db' = RenderWebhookEffect(db, WebhookBody(j))
    /\ jobs' = Replace(jobs, j, [j EXCEPT !.pc = "notified",
                                          !.resp = RenderWebhookResp(db, WebhookBody(j))])
    /\ UNCHANGED <<usedIds, deploy, reqs, poll, editor, calc, tmp>>

\* The Worker's POST does not reach the Orchestrator (connection error or
\* timeout): it raises in the task.
WebhookLost(j) ==
    /\ j.pc = "notify"
    /\ jobs' = Replace(jobs, j, [j EXCEPT !.pc = "notified", !.resp = 0])
    /\ UNCHANGED <<db, usedIds, deploy, reqs, poll, editor, calc, tmp>>

\* After a "completed" post that raised or that raise_for_status rejects, the
\* except block posts "failed" with str(e).
JobReportError(j) ==
    /\ j.type \in {"transcription", "render"}
    /\ j.pc = "notified" /\ j.sent = "completed"
    /\ j.resp = 0 \/ j.resp >= 400
    /\ \E e \in ErrorStrings :
         /\ j.resp >= 400 => e # ""
         /\ jobs' = Replace(jobs, j, [j EXCEPT !.pc = "notify", !.sent = "failed",
                                               !.error = Some(e), !.subtitles = None,
                                               !.outputUrl = None, !.resp = 0])
    /\ UNCHANGED <<db, usedIds, deploy, reqs, poll, editor, calc, tmp>>

\* The task ends: its finally block removes the temporary files.  The answer
\* to a "failed" post is not looked at, and an error of that post is swallowed.
JobEnd(j) ==
    /\ j.type \in {"transcription", "render"}
    /\ j.pc = "notified"
    /\ j.sent = "failed" \/ j.resp \in 200..299
    /\ jobs' = Remove(jobs, j)
    /\ UNCHANGED <<db, usedIds, deploy, reqs, poll, editor, calc, tmp>>

\* ---------------------------------------------------------------- filmstrip
\* POST /api/videos/[id]/filmstrip/generate: findUnique, then the cache check.
\* A record with a filmstrip URL answers "already_exists" at once; otherwise
\* the handler goes on to the dispatch call.
FilmstripGenerateFind(id) ==
    /\ CanAccept
    /\ Exists(id)
    /\ reqs' = Add(reqs, IF Truthy(db[id].filmstripUrl)
                           THEN Return(NewReq("filmstrip", id, "find"), 200)
                           ELSE NewReq("filmstrip", id, "fetch"))
    /\ UNCHANGED <<db, usedIds, deploy, jobs, poll, editor, calc, tmp>>

\* The Worker accepted the dispatch call: the handler answers 202 "processing".
FilmstripGenerateFetchOk(r) ==
    /\ r.kind = "filmstrip" /\ r.pc = "fetch"
    /\ verify_secret(DispatchAuthorization)
    /\ CanQueue
    /\ jobs' = Add(jobs, NewJob("filmstrip", r.vid))
    /\ reqs' = Replace(reqs, r, Return(r, 202))
    /\ UNCHANGED <<db, usedIds, deploy, poll, editor, calc, tmp>>

\* The dispatch call failed (network error or non-2xx): the catch block
\* answers 500.
FilmstripGenerateFetchFail(r) ==
    /\ r.kind = "filmstrip" /\ r.pc = "fetch"
    /\ reqs' = Replace(reqs, r, Return([r EXCEPT !.thrown = "dispatch"], 500))
    /\ UNCHANGED <<db, usedIds, deploy, jobs, poll, editor, calc, tmp>>

\* Authorization headers a client of the Worker may send: none, or a string
\* of at most MaxPieces pieces.
MaxPieces == 3
Pieces == {"Bearer ", WorkerSecret, "wrong"}
Headers ==
    {None} \cup {Some(h) : h \in UNION {[1..n -> Pieces] : n \in 0..MaxPieces}}

\* Video ids a client of the Worker names that are no record of the
\* Orchestrator.
ForeignIds == {"v0"}

\* POST /generate-filmstrip on the Worker, sent by any client: verify_secret,
\* then background_tasks.add_task.  A rejected call is answered 401 and
\* enqueues nothing.
WorkerGenerateFilmstrip(id, authorization) ==
    /\ CanAccept
    /\ IF verify_secret(authorization)
         THEN /\ CanQueue
              /\ jobs' = Add(jobs, NewJob("filmstrip", id))
              /\ reqs' = Add(reqs, Return(NewReq("generate-filmstrip", id, "verify"), 200))
         ELSE /\ jobs' = jobs
              /\ reqs' = Add(reqs, Return(NewReq("generate-filmstrip", id, "verify"), 401))
    /\ UNCHANGED <<db, usedIds, deploy, poll, editor, calc, tmp>>

\* Where the Worker stores the sprite sheet, and what it reports about it.
FilmstripUrlOf(id) == "/uploads/thumbnails/" \o id \o "/filmstrip.jpg"
FilmstripMetadata == [frameCount |-> 15, frameWidth |-> 160, frameHeight |-> 90]

\* process_filmstrip_generation up to the webhook: it posts "completed" with
\* the URL and the metadata.
FilmstripJobSucceed(j) ==
    /\ j.type = "filmstrip" /\ j.pc = "queued"
    /\ jobs' = Replace(jobs, j, [j EXCEPT !.pc = "notify", !.sent = "completed",
                                          !.filmstripUrl = Some(FilmstripUrlOf(j.vid)),
                                          !.metadata = Some(FilmstripMetadata)])
    /\ UNCHANGED <<db, usedIds, deploy, reqs, poll, editor, calc, tmp>>

\* A step of the task raised: the task posts "failed" with str(e).
FilmstripJobFail(j) ==
    /\ j.type = "filmstrip" /\ j.pc = "queued"
    /\ \E e \in ErrorStrings :
         jobs' = Replace(jobs, j, [j EXCEPT !.pc = "notify", !.sent = "failed", !.error = Some(e)])
    /\ UNCHANGED <<db, usedIds, deploy, reqs, poll, editor, calc, tmp>>

\* FilmstripWebhookData of a handler that also marks the video "ready".
FilmstripWebhookData_ready(body) ==
    IF body.status = "completed"
      THEN [NoData EXCEPT !.filmstripUrl = IF body.filmstripUrl = None THEN None
                                           ELSE Some(body.filmstripUrl),
                          !.filmstripMetadata = IF body.metadata = None THEN None
                                                ELSE Some(body.metadata),
                          !.status = Some("ready")]
      ELSE NoData

\* POST /api/webhooks/filmstrip-complete: the `data` of the update it performs;
\* it updates for "completed" only.
FilmstripWebhookData(body) ==
    IF body.status = "completed"
      THEN [NoData EXCEPT !.filmstripUrl = IF body.filmstripUrl = None THEN None
                                           ELSE Some(body.filmstripUrl),
                          !.filmstripMetadata = IF body.metadata = None THEN None
                                                ELSE Some(body.metadata)]
      ELSE NoData

\* The record table after the filmstrip handler ran on `body`.
FilmstripWebhookEffect(table, body) ==
    IF body.videoId \in DOMAIN table
      THEN Update(table, body.videoId, FilmstripWebhookData(body))
      ELSE table

\* Its HTTP status: 200 after the update, 500 when update throws, 500 for
\* "failed", 400 for any other status.
FilmstripWebhookResp(table, body) ==
    IF body.status = "completed"
      THEN IF body.videoId \in DOMAIN table THEN 200 ELSE 500
    ELSE IF body.status = "failed" THEN 500
    ELSE 400

\* The Worker's POST reaches the filmstrip webhook and is answered.
FilmstripWebhook(j) ==
    /\ j.type = "filmstrip" /\ j.pc = "notify"
    /\ db' = FilmstripWebhookEffect(db, WebhookBody(j))
    /\ jobs' = Replace(jobs, j, [j EXCEPT !.pc = "notified",
                                          !.resp = FilmstripWebhookResp(db, WebhookBody(j))])
    /\ UNCHANGED <<usedIds, deploy, reqs, poll, editor, calc, tmp>>

\* The filmstrip task ends after its post, whatever the answer was.
FilmstripJobEnd(j) ==
    /\ j.type = "filmstrip" /\ j.pc = "notified"
    /\ jobs' = Remove(jobs, j)
    /\ UNCHANGED <<db, usedIds, deploy, reqs, poll, editor, calc, tmp>>

\* JSON bodies of PATCH /api/videos/[id] that name the filmstrip columns or
\* the status.
FilmstripPatchBodies ==
    { [NoData EXCEPT !.filmstripUrl = Some(None)],
      [NoData EXCEPT !.filmstripUrl = Some(Some("/uploads/other.jpg"))],
      [NoData EXCEPT !.status = Some("completed")],
      [NoData EXCEPT !.status = Some("failed")] }

\* ---------------------------------------------------------------- poller
\* useFilmstrip: initialize, and the polling session that follows a
\* "processing" answer of the generate route.  The clock moves only in
\* TimePasses; every other step takes no time.

\* GET requests of the poller that can be unanswered at the same time.
MaxInflight == 2
\* Times per session that the clock moves on while a GET is unanswered.
MaxSlow == 1
\* Answers of one session that are neither 200 nor 404 (5xx, network error).
MaxErrors == 1

Min(a, b) == IF a <= b THEN a ELSE b

\* NextInterval that starts over when it reaches the cap.
NextInterval_startOver(interval) ==
    IF (interval * BACKOFF_MULTIPLIER_TENTHS) \div 10 >= MAX_INTERVAL
      THEN INITIAL_INTERVAL
      ELSE (interval * BACKOFF_MULTIPLIER_TENTHS) \div 10

\* NextInterval without the cap.
NextInterval_uncapped(interval) == (interval * BACKOFF_MULTIPLIER_TENTHS) \div 10

\* Math.min(currentInterval * BACKOFF_MULTIPLIER, MAX_INTERVAL).
NextInterval(interval) ==
    Min((interval * BACKOFF_MULTIPLIER_TENTHS) \div 10, MAX_INTERVAL)

\* stopPolling: clear the timer and reset the attempt counter and the interval.
stopPolling(p) ==
    [p EXCEPT !.timer = None, !.pollingAttempts = 0, !.currentInterval = INITIAL_INTERVAL]

\* checkFilmstripReady without the retry limit.
checkFilmstripReady_noRetryLimit(p) ==
    IF ~p.mounted THEN stopPolling(p)
    ELSE IF p.now - p.pollingStartTime > MAX_DURATION
      THEN [stopPolling(p) EXCEPT !.error = Some("Filmstrip generation timed out")]
    ELSE [p EXCEPT !.pollingAttempts = @ + 1, !.inflight = @ + 1,
                   !.requests = @ + 1]

\* checkFilmstripReady up to its await: the mounted check, the global timeout,
\* the retry limit, then the GET request is sent.
checkFilmstripReady(p) ==
    IF ~p.mounted THEN stopPolling(p)
    ELSE IF p.now - p.pollingStartTime > MAX_DURATION
      THEN [stopPolling(p) EXCEPT !.error = Some("Filmstrip generation timed out")]
    ELSE IF p.pollingAttempts + 1 > MAX_RETRIES THEN stopPolling(p)
    ELSE [p EXCEPT !.pollingAttempts = @ + 1, !.inflight = @ + 1,
                   !.requests = @ + 1]

\* What the cache check of initialize can get: 200, an answer that is not
\* ok, or a fetch that throws.
CacheAnswers == {"ok", "miss", "throw"}

\* CacheCheck that goes on to the extraction after a hit.
CacheCheck_continue(answer) ==
    /\ poll.cache = "pending"
    /\ poll' =
         CASE answer = "ok" ->
                [poll EXCEPT !.cache = "hit", !.extract = "running",
                             !.status = IF poll.mounted THEN "filmstrip-ready" ELSE @]
           [] answer = "miss" -> [poll EXCEPT !.cache = "miss", !.extract = "running"]
           [] answer = "throw" ->
                [poll EXCEPT !.cache = "error",
                             !.status = IF poll.mounted THEN "error" ELSE @,
                             !.error = IF poll.mounted THEN Some("fetch failed") ELSE @]
    /\ UNCHANGED <<db, usedIds, deploy, reqs, jobs, editor, calc, tmp>>

\* initialize from the answer of the cache check up to its next await: a hit
\* shows the filmstrip and returns, a miss starts extractFramesWithCanvas, a
\* throw ends in the catch.
CacheCheck(answer) ==
    /\ poll.cache = "pending"
    /\ poll' =
         CASE answer = "ok" ->
                [poll EXCEPT !.cache = "hit",
                             !.status = IF poll.mounted THEN "filmstrip-ready" ELSE @]
           [] answer = "miss" -> [poll EXCEPT !.cache = "miss", !.extract = "running"]
           [] answer = "throw" ->
                [poll EXCEPT !.cache = "error",
                             !.status = IF poll.mounted THEN "error" ELSE @,
                             !.error = IF poll.mounted THEN Some("fetch failed") ELSE @]
    /\ UNCHANGED <<db, usedIds, deploy, reqs, jobs, editor, calc, tmp>>

\* extractFramesWithCanvas settles.  Resolved: initialize shows the canvas
\* frames and triggerBackendGeneration sends its request.  Rejected (no 2d
\* context, the video fails to load, the 30 s timeout): the catch of
\* initialize shows the error.
Extracted(ok) ==
    /\ poll.extract = "running"
    /\ poll' =
         IF ok
           THEN [poll EXCEPT !.extract = "done", !.generate = "sent",
                             !.status = IF poll.mounted THEN "canvas-ready" ELSE @]
           ELSE [poll EXCEPT !.extract = "failed",
                             !.status = IF poll.mounted THEN "error" ELSE @,
                             !.error = IF poll.mounted
                                         THEN Some("Failed to load video") ELSE @]
    /\ UNCHANGED <<db, usedIds, deploy, reqs, jobs, editor, calc, tmp>>

\* triggerBackendGeneration after its awaits, when the answer is not
\* "processing": "already_exists" shows the filmstrip, anything else (and a
\* fetch that throws) is logged.
GenerateAnswers == {"already_exists", "failed"}

Generated(answer) ==
    /\ poll.generate = "sent"
    /\ poll' = [poll EXCEPT !.generate = answer,
                            !.status = IF answer = "already_exists" /\ poll.mounted
                                         THEN "filmstrip-ready" ELSE @]
    /\ UNCHANGED <<db, usedIds, deploy, reqs, jobs, editor, calc, tmp>>

\* triggerBackendGeneration got "processing" and calls startPolling: stop what
\* runs, take the start time, check at once, then set the interval timer.
\* `outage` says whether the route can be reached during the session.
startPolling ==
    /\ poll.generate = "sent"
    /\ \E outage \in BOOLEAN :
         LET reset == [stopPolling(poll) EXCEPT !.started = TRUE,
                                                !.generate = "processing",
                                                !.outage = outage,
                                                !.requests = 0,
                                                !.slow = 0,
                                                !.pollingStartTime = poll.now]
             checked == checkFilmstripReady(reset)
         IN poll' = [checked EXCEPT !.timer = Some(checked.now + checked.currentInterval)]
    /\ UNCHANGED <<db, usedIds, deploy, reqs, jobs, editor, calc, tmp>>

\* initialize has returned: after a cache hit, from its catch, or when
\* triggerBackendGeneration has handled its answer.
InitializeReturned(p) ==
    \/ p.cache \in {"hit", "error"}
    \/ p.extract = "failed"
    \/ p.generate \in {"already_exists", "failed", "processing"}

\* The instants the clock can move to while the timer runs: the deadline of
\* the timer, and the first instant after the global timeout when that comes
\* before the deadline.
NextInstants(p) ==
    LET deadline == The(p.timer)
        late == p.pollingStartTime + MAX_DURATION + 1
    IN {deadline} \cup (IF p.now < late /\ late < deadline THEN {late} ELSE {})

\* Time passes while the interval timer waits.  The awaits of initialize
\* settle before the next deadline of a timer.
TimePasses ==
    /\ poll.timer # None
    /\ InitializeReturned(poll)
    /\ poll.now < The(poll.timer)
    /\ poll.inflight < MaxInflight
    /\ poll.inflight > 0 => poll.slow < MaxSlow
    /\ \E t \in NextInstants(poll) :
         poll' = [poll EXCEPT !.now = t,
                              !.slow = IF poll.inflight > 0 THEN @ + 1 ELSE @]
    /\ UNCHANGED <<db, usedIds, deploy, reqs, jobs, editor, calc, tmp>>

\* The interval timer fires: checkFilmstripReady runs up to its await, and the
\* timer, unless it was cleared, fires again one interval later.
Tick ==
    /\ poll.timer = Some(poll.now)
    /\ LET checked == checkFilmstripReady(poll)
       IN poll' = IF checked.timer = None THEN checked
                  ELSE [checked EXCEPT !.timer = Some(checked.now + checked.currentInterval)]
    /\ UNCHANGED <<db, usedIds, deploy, reqs, jobs, editor, calc, tmp>>

\* What GET /api/videos/[id]/filmstrip can answer: 200, 404, or neither of
\* them (5xx, network error).
Answers == {"ok", "not_found", "error"}

\* The rest of checkFilmstripReady after the answer arrived, with an error
\* answer that stops the polling.
Response_errorStops(answer) ==
    /\ poll.inflight > 0
    /\ poll.outage => answer = "error"
    /\ answer = "error" => poll.outage \/ poll.errors < MaxErrors
    /\ LET p == [poll EXCEPT !.inflight = @ - 1]
       IN poll' =
            CASE answer = "ok" ->
                   stopPolling(IF p.mounted
                                 THEN [p EXCEPT !.status = "filmstrip-ready", !.error = None]
                                 ELSE p)
              [] answer = "not_found" ->
                   IF p.timer # None
                     THEN [p EXCEPT !.currentInterval = NextInterval(p.currentInterval),
                                    !.timer = Some(p.now + NextInterval(p.currentInterval))]
                     ELSE p
              [] answer = "error" ->
                   stopPolling([p EXCEPT !.errors = IF p.outage THEN @ ELSE @ + 1])
    /\ UNCHANGED <<db, usedIds, deploy, reqs, jobs, editor, calc, tmp>>

\* The rest of checkFilmstripReady after the answer arrived.  In an outage
\* every answer is an error; otherwise at most MaxErrors answers are.
Response(answer) ==
    /\ poll.inflight > 0
    /\ poll.outage => answer = "error"
    /\ answer = "error" => poll.outage \/ poll.errors < MaxErrors
    /\ LET p == [poll EXCEPT !.inflight = @ - 1]
       IN poll' =
            CASE answer = "ok" ->
                   stopPolling(IF p.mounted
                                 THEN [p EXCEPT !.status = "filmstrip-ready", !.error = None]
                                 ELSE p)
              [] answer = "not_found" ->
                   IF p.timer # None
                     THEN [p EXCEPT !.currentInterval = NextInterval(p.currentInterval),
                                    !.timer = Some(p.now + NextInterval(p.currentInterval))]
                     ELSE p
              [] answer = "error" -> [p EXCEPT !.errors = IF p.outage THEN @ ELSE @ + 1]
    /\ UNCHANGED <<db, usedIds, deploy, reqs, jobs, editor, calc, tmp>>

\* Times the initialize effect runs again in one mount.
MaxRuns == 1

\* videoUrl or duration changed after initialize has returned: the cleanup of
\* the effect sets `cancelled` of the run that is over, and the effect calls
\* initialize again.  The state, the refs and the interval timer are kept.
\* The change comes before the clock has moved in a polling session.
Reinitialize ==
    /\ poll.mounted
    /\ poll.runs < MaxRuns
    /\ poll.started => poll.now = poll.pollingStartTime
    /\ InitializeReturned(poll)
    /\ poll' = [poll EXCEPT !.runs = @ + 1, !.cache = "pending",
                            !.extract = "none", !.generate = "none"]
    /\ UNCHANGED <<db, usedIds, deploy, reqs, jobs, editor, calc, tmp>>

\* The editor unmounts: the cleanup of the effect stops the polling.
Unmount ==
    /\ poll.mounted
    /\ poll' = stopPolling([poll EXCEPT !.mounted = FALSE])
    /\ UNCHANGED <<db, usedIds, deploy, reqs, jobs, editor, calc, tmp>>

\* ---------------------------------------------------------------- editor poller
\* EditorClient: transcribeVideo, renderVideo and the status poller they
\* start.  A click is a discrete event, React renders its state updates
\* before the next step; updates made after an await or in a timer callback
\* are queued until React renders (EditorCommit).

\* Timers one editor creates.
MaxTimers == 3
\* POST requests of transcribeVideo and renderVideo unanswered at the same time.
MaxPosts == 2

EditorOps == {"transcribe", "render"}

\* setState after an await or in a timer callback: queued when the component
\* is mounted, ignored when it is not.
SetState(e, name, value) ==
    IF e.mounted THEN [e EXCEPT !.pending[name] = Some(value)] ELSE e

\* clearInterval(handle) for a pollingInterval value (None: null).
clearInterval(timers, handle) == {t \in timers : Some(t.id) # handle}

\* transcribeVideo / renderVideo up to the await of the POST: the button is
\* enabled, the flag is set and rendered, the request is sent.  The closure
\* keeps the pollingInterval and the video of this render.
EditorOperation(op) ==
    /\ editor.mounted
    /\ op = "transcribe" => ~editor.isTranscribing
    /\ op = "render" => ~editor.isRendering
    /\ BagCardinality(editor.posts) < MaxPosts
    /\ editor' =
         [editor EXCEPT
            !.isTranscribing = IF op = "transcribe" THEN TRUE ELSE @,
            !.isRendering = IF op = "render" THEN TRUE ELSE @,
            !.pending.isTranscribing = IF op = "transcribe" THEN None ELSE @,
            !.pending.isRendering = IF op = "render" THEN None ELSE @,
            !.posts = Add(@, [op |-> op, pollingInterval |-> editor.pollingInterval,
                              video |-> editor.video])]
    /\ UNCHANGED <<db, usedIds, deploy, reqs, jobs, poll, calc, tmp>>

\* startPolling of EditorClient, called from the closure q: clear the
\* interval the closure holds, create a timer, set the state.
EditorStartPolling(e, q) ==
    LET t == [id |-> e.created + 1, video |-> q.video, op |-> q.op]
    IN SetState([e EXCEPT !.timers = clearInterval(@, q.pollingInterval) \cup {t},
                          !.created = @ + 1],
                "pollingInterval", Some(t.id))

\* transcribeVideo / renderVideo after the await: an ok answer starts the
\* polling, anything else resets the flag in the catch.
EditorOperationAnswer(q, ok) ==
    /\ BagIn(q, editor.posts)
    /\ ok => editor.created < MaxTimers
    /\ LET e == [editor EXCEPT !.posts = Remove(@, q)]
       IN editor' =
            IF ok THEN EditorStartPolling(e, q)
            ELSE SetState(e, IF q.op = "transcribe" THEN "isTranscribing"
                                                    ELSE "isRendering", FALSE)
    /\ UNCHANGED <<db, usedIds, deploy, reqs, jobs, poll, calc, tmp>>

\* A timer fires: its callback sends GET /api/videos/[id].
EditorPollTick(t) ==
    /\ t \in editor.timers
    /\ t \notin editor.gets
    /\ editor' = [editor EXCEPT !.gets = @ \cup {t}]
    /\ UNCHANGED <<db, usedIds, deploy, reqs, jobs, poll, calc, tmp>>

\* What the GET of the callback can bring: no ok answer (or a throw), or the
\* status of the video.
EditorAnswers == {"error", "transcribing", "rendering", "ready", "completed", "failed"}

\* The period of the setInterval, in ms.
EditorPollPeriod == 2000
\* The time after which a status poller is to give up, in ms.
EditorPollTimeout == 300000
\* Times since startPolling at which a callback can run: the first firing, and
\* the first firing after EditorPollTimeout.
EditorElapsed == {EditorPollPeriod, EditorPollTimeout + EditorPollPeriod}

\* The callback of timer t after its await, `elapsed` ms after startPolling
\* created the timer.  The callback reads no clock.
EditorPollAnswer(t, answer, elapsed) ==
    /\ t \in editor.gets
    /\ LET e0 == [editor EXCEPT !.gets = @ \ {t}]
           e1 == SetState(e0, "video", answer)
           e2 == IF (answer = "ready" /\ t.video # "ready") \/ answer = "failed"
                   THEN SetState(e1, "isTranscribing", FALSE) ELSE e1
           e3 == IF (answer = "completed" /\ t.video # "completed") \/ answer = "failed"
                   THEN SetState(e2, "isRendering", FALSE) ELSE e2
       IN editor' =
            CASE answer = "error" -> e0
              [] answer \in {"ready", "completed", "failed"} ->
                   SetState([e3 EXCEPT !.timers = clearInterval(@, Some(t.id))],
                            "pollingInterval", None)
              [] OTHER -> e1
    /\ UNCHANGED <<db, usedIds, deploy, reqs, jobs, poll, calc, tmp>>

Pending(e, name) ==
    IF e.pending[name] = None THEN e[name] ELSE The(e.pending[name])

\* React renders the queued updates.  When pollingInterval changed, the
\* cleanup of the effect clears the interval of the previous render.
EditorCommit ==
    /\ editor.mounted
    /\ editor.pending # NoPending
    /\ editor' =
         [editor EXCEPT
            !.pollingInterval = Pending(editor, "pollingInterval"),
            !.isTranscribing = Pending(editor, "isTranscribing"),
            !.isRendering = Pending(editor, "isRendering"),
            !.video = Pending(editor, "video"),
            !.pending = NoPending,
            !.timers = IF Pending(editor, "pollingInterval") # editor.pollingInterval
                         THEN clearInterval(@, editor.pollingInterval) ELSE @]
    /\ UNCHANGED <<db, usedIds, deploy, reqs, jobs, poll, calc, tmp>>

\* The editor unmounts: the cleanup of the effect clears the interval of the
\* last render.
EditorUnmount ==
    /\ editor.mounted
    /\ editor' = [editor EXCEPT !.mounted = FALSE, !.pending = NoPending,
                                !.timers = clearInterval(@, editor.pollingInterval)]
    /\ UNCHANGED <<db, usedIds, deploy, reqs, jobs, poll, calc, tmp>>

\* ---------------------------------------------------------------- numbers
\* A JavaScript / Python number as <<numerator, denominator>>, denominator > 0.
Rat(n, d) == <<n, d>>
LessEq(q, k) == q[1] <= k * q[2]
Less(q, k) == q[1] < k * q[2]
Positive(q) == q[1] > 0
Times(q, k) == <<q[1] * k, q[2]>>
Divide(q, k) == <<q[1], q[2] * k>>
OneMinus(q) == <<q[2] - q[1], q[2]>>
\* Math.round: the nearest integer, a half goes up.
MathRound(q) == (2 * q[1] + q[2]) \div (2 * q[2])
\* Python int() of a number that is not negative: the fraction is dropped.
PyInt(q) == q[1] \div q[2]

\* ---------------------------------------------------------------- frame counts
\* Durations go in half seconds up to MaxSeconds.
MaxSeconds == 700
Durations == {Rat(n, 2) : n \in 0..(2 * MaxSeconds)}

\* calculateFrameCount with the bucket ends on the wrong side.
calculateFrameCount_strict(duration) ==
    IF Less(duration, 30) THEN 15
    ELSE IF Less(duration, 180) THEN 20
    ELSE IF Less(duration, 600) THEN 25
    ELSE 30

\* calculateFrameCount(duration), duration in seconds.
calculateFrameCount(duration) ==
    IF LessEq(duration, 30) THEN 15
    ELSE IF LessEq(duration, 180) THEN 20
    ELSE IF LessEq(duration, 600) THEN 25
    ELSE 30

\* calculate_frame_count of the Worker, by the table of
\* process_filmstrip_generation: 0-30 s 15, 30 s-3 min 20, 3-10 min 25,
\* more than 10 min 30.
calculate_frame_count(duration) ==
    IF LessEq(duration, 30) THEN 15
    ELSE IF LessEq(duration, 180) THEN 20
    ELSE IF LessEq(duration, 600) THEN 25
    ELSE 30

\* getVideoDuration(videoUrl): 60 seconds for every video.
getVideoDuration == Rat(60, 1)

\* VideoProject.duration as the upload handler stores it: duration / 60.
StoredDuration == Divide(getVideoDuration, 60)

\* The places that dispatch a filmstrip job to the Worker.
Triggers == {"upload", "generate"}

\* The `duration` of the dispatch body: the upload handler sends the duration
\* in seconds, the generate route sends VideoProject.duration.
DispatchDuration(trigger) ==
    IF trigger = "upload" THEN getVideoDuration ELSE StoredDuration

\* The Authorization header of the dispatch.
TriggerAuthorization(trigger) ==
    IF trigger = "upload" THEN UploadAuthorization ELSE DispatchAuthorization

\* The duration EditorClient hands to the timeline and so to useFilmstrip:
\* videoRef.current?.duration || initialVideo.duration * 60.  `media` is the
\* duration of the video element (None: no element, or NaN before the
\* metadata has loaded).
EditorDuration(media) ==
    IF media # None /\ The(media)[1] # 0 THEN The(media)
    ELSE Times(StoredDuration, 60)

\* A call of calculateFrameCount.
FrameCount(duration) ==
    /\ calc = CalcIdle
    /\ calc' = [op |-> "calculateFrameCount", duration |-> duration,
                frameCount |-> calculateFrameCount(duration)]
    /\ UNCHANGED <<db, usedIds, deploy, reqs, jobs, poll, editor, tmp>>

\* One video, one trigger: the frame count initialize computes for the local
\* extraction, and the frame count the Worker computes for the sprite sheet
\* (None when the Worker rejects the dispatch).
FilmstripFrames(trigger, media) ==
    /\ calc = CalcIdle
    /\ calc' = [op |-> "filmstrip", trigger |-> trigger, media |-> media,
                local |-> calculateFrameCount(EditorDuration(media)),
                worker |-> IF verify_secret(TriggerAuthorization(trigger))
                             THEN Some(calculate_frame_count(DispatchDuration(trigger)))
                             ELSE None]
    /\ UNCHANGED <<db, usedIds, deploy, reqs, jobs, poll, editor, tmp>>

\* ---------------------------------------------------------------- burn-in style
\* Colours are strings, one character per place.
HexDigits == <<"0", "1", "2", "3", "4", "5", "6", "7", "8", "9",
               "A", "B", "C", "D", "E", "F">>
LowerHexDigits == <<"0", "1", "2", "3", "4", "5", "6", "7", "8", "9",
                    "a", "b", "c", "d", "e", "f">>

\* parseInt(s, 16) / int(s, 16) of two hexadecimal digits.
ParseHex2(s) ==
    LET value(c) == CHOOSE v \in 0..15 : HexDigits[v + 1] = c \/ LowerHexDigits[v + 1] = c
    IN 16 * value(s[1]) + value(s[2])

\* n.toString(16).padStart(2, '0').toUpperCase() / f"{n:02X}", n in 0..255.
ToHex2(n) == <<HexDigits[(n \div 16) + 1], HexDigits[(n % 16) + 1]>>

\* hex.replace('#', '') / hex_color.lstrip('#') of a colour with at most one
\* '#', in front.
StripHash(hex) == IF hex # <<>> /\ Head(hex) = "#" THEN Tail(hex) ELSE hex

\* Opacities are the multiples of 1 / 2^OpacityBits in [0, 1]: a double holds
\* them, and their products with 255, exactly.
OpacityBits == 6
Opacities == {Rat(k, 2 ^ OpacityBits) : k \in 0..(2 ^ OpacityBits)}

Colours ==
    {<<"#", "F", "F", "0", "0", "8", "0">>,
     <<"0", "0", "0", "0", "0", "0">>,
     <<"#", "1", "a", "2", "B", "3", "c">>}

\* hexToFFmpegColor(hex, opacity) of the Orchestrator: &HAABBGGRR.
hexToFFmpegColor(hex, opacity) ==
    LET h == StripHash(hex)
        r == ParseHex2(SubSeq(h, 1, 2))
        g == ParseHex2(SubSeq(h, 3, 4))
        b == ParseHex2(SubSeq(h, 5, 6))
        a == MathRound(Times(OneMinus(opacity), 255))
    IN <<"&H">> \o ToHex2(a) \o ToHex2(b) \o ToHex2(g) \o ToHex2(r)

\* hex_to_ffmpeg_color(hex_color, opacity) of the Worker: &HAABBGGRR.
hex_to_ffmpeg_color(hex_color, opacity) ==
    LET h == StripHash(hex_color)
        r == ParseHex2(SubSeq(h, 1, 2))
        g == ParseHex2(SubSeq(h, 3, 4))
        b == ParseHex2(SubSeq(h, 5, 6))
        a == PyInt(Times(OneMinus(opacity), 255))
    IN <<"&H">> \o ToHex2(a) \o ToHex2(b) \o ToHex2(g) \o ToHex2(r)

\* A call of both colour conversions with the same arguments.
ColourConversion(hex, opacity) ==
    /\ calc = CalcIdle
    /\ calc' = [op |-> "colour", hex |-> hex, opacity |-> opacity,
                orchestrator |-> hexToFFmpegColor(hex, opacity),
                worker |-> hex_to_ffmpeg_color(hex, opacity)]
    /\ UNCHANGED <<db, usedIds, deploy, reqs, jobs, poll, editor, tmp>>

\* The default backgroundOpacity, 0.8.  The double 0.8 lies just above 4/5,
\* so (1 - 0.8) * 255 lies just below 51: the model takes it as 205/256, for
\* which Math.round and int() give what they give for the double.
DefaultOpacity == Rat(205, 256)
DefaultColour == <<"#", "0", "0", "0", "0", "0", "0">>

\* A saved subtitleStyle: each key is there (Some) or not (None).
Styles ==
    [backgroundColor : {None} \cup {Some(c) : c \in Colours},
     backgroundOpacity : {None} \cup {Some(o) : o \in Opacities},
     outlineColor : {None, Some(<<"#", "1", "a", "2", "B", "3", "c">>)}]

OrElse(o, default) == IF o = None THEN default ELSE The(o)

\* The style of the render route that always writes the outline colour to
\* OutlineColour.
RenderForceStyle_outlineOnly(style) ==
    LET backgroundOpacity == OrElse(style.backgroundOpacity, DefaultOpacity)
        borderStyle == IF Positive(backgroundOpacity) THEN 3 ELSE 1
        background == hexToFFmpegColor(OrElse(style.backgroundColor, DefaultColour),
                                       backgroundOpacity)
        outline == hexToFFmpegColor(OrElse(style.outlineColor, DefaultColour), Rat(1, 1))
    IN [BorderStyle |-> borderStyle, OutlineColour |-> outline, BackColour |-> background]

\* The force_style the local render route builds: the saved style over the
\* default style, then the mode by backgroundOpacity > 0.
RenderForceStyle(style) ==
    LET backgroundOpacity == OrElse(style.backgroundOpacity, DefaultOpacity)
        borderStyle == IF Positive(backgroundOpacity) THEN 3 ELSE 1
        background == hexToFFmpegColor(OrElse(style.backgroundColor, DefaultColour),
                                       backgroundOpacity)
        outline == hexToFFmpegColor(OrElse(style.outlineColor, DefaultColour), Rat(1, 1))
    IN IF borderStyle = 3
         THEN [BorderStyle |-> 3, OutlineColour |-> background, BackColour |-> outline]
         ELSE [BorderStyle |-> 1, OutlineColour |-> outline, BackColour |-> background]

\* build_subtitle_style(style) of the Worker.
build_subtitle_style(style) ==
    LET outline_color == hex_to_ffmpeg_color(OrElse(style.outlineColor, DefaultColour),
                                             Rat(1, 1))
        back_color == hex_to_ffmpeg_color(OrElse(style.backgroundColor, DefaultColour),
                                          OrElse(style.backgroundOpacity, DefaultOpacity))
        border_style == IF Positive(OrElse(style.backgroundOpacity, DefaultOpacity))
                          THEN 3 ELSE 1
    IN [BorderStyle |-> border_style,
        OutlineColour |-> IF border_style = 1 THEN outline_color ELSE back_color,
        BackColour |-> back_color]

\* One style, burnt in by the local render route and by the Worker.
BurnInStyle(style) ==
    /\ calc = CalcIdle
    /\ calc' = [op |-> "style", style |-> style,
                orchestrator |-> RenderForceStyle(style),
                worker |-> build_subtitle_style(style)]
    /\ UNCHANGED <<db, usedIds, deploy, reqs, jobs, poll, editor, tmp>>

\* ---------------------------------------------------------------- Worker files
\* The background tasks of the Worker and the files they keep in
\* tempfile.gettempdir().  Tasks run on one event loop: a task runs from one
\* await to the next without interruption, and other tasks run while it waits.

\* Background tasks the Worker is given in one run.
MaxTasks == 3

TaskTypes == {"transcription", "render", "filmstrip"}

\* A path in the temporary directory: <<stem, video id, extension>>.
\* download_video: os.path.join(temp_dir, f"video_{video_id}.mp4").
VideoPath(id) == <<"video_", id, ".mp4">>
\* extract_audio: video_path.replace(".mp4", ".mp3").
AudioPath(video_path) == [video_path EXCEPT ![3] = IF @ = ".mp4" THEN ".mp3" ELSE @]
\* generate_srt_file: f"subtitles_{video_id}.srt".
SrtPath(id) == <<"subtitles_", id, ".srt">>
\* process_rendering: f"rendered_{video_id}.mp4".
RenderedPath(id) == <<"rendered_", id, ".mp4">>
\* The sprite sheet process_filmstrip_generation has FFmpeg write.
SpritePath(id) == <<"filmstrip_", id, ".jpg">>

\* open(path, "wb") and FFmpeg with -y: the file is created or replaced.
WriteFile(files, path, id) == {f \in files : f[1] # path} \cup {<<path, id>>}
FileExists(files, path) == \E f \in files : f[1] = path

\* cleanup_files(*file_paths): os.remove of every path that exists.
cleanup_files(files, paths, id) == {f \in files : f[1] \notin paths}

\* The local variables of a task that hold a path (None until assigned), and
\* `made`, the paths the task has written.
NewTask(type, id, n) ==
    [id |-> n, type |-> type, vid |-> id, pc |-> "get", video_path |-> None,
     audio_path |-> None, srt_path |-> None, output_path |-> None, made |-> {}]

\* The paths a task passes to cleanup_files: its variables that are set.
CleanupPaths(t) == t.video_path \cup t.audio_path \cup t.srt_path \cup t.output_path

TaskStep(t, u) == [tmp EXCEPT !.tasks = (@ \ {t}) \cup {u}]

\* The task function returns after its finally block (transcription, render)
\* or after its last statement (filmstrip).
TaskCleanup(t) ==
    [tmp EXCEPT !.tasks = @ \ {t},
                !.files = cleanup_files(@, CleanupPaths(t), t.id)]

\* A statement of the task raises.  process_transcription and
\* process_rendering go to their except block, which posts "failed";
\* process_filmstrip_generation has no handler and ends where it is.
TaskRaise(t, u) ==
    IF t.type = "filmstrip"
      THEN [tmp EXCEPT !.tasks = @ \ {t}]
      ELSE TaskStep(t, [u EXCEPT !.pc = "failing"])

\* background_tasks.add_task: the endpoint hands a task to the event loop.
TaskAccept(type, id) ==
    /\ tmp.created < MaxTasks
    /\ tmp' = [tmp EXCEPT !.created = @ + 1,
                          !.tasks = @ \cup {NewTask(type, id, tmp.created + 1)}]
    /\ UNCHANGED <<db, usedIds, deploy, reqs, jobs, poll, editor, calc>>

\* download_video after `await client.get(url)`: raise_for_status, then the
\* body is written to the video path; the client is closed next, which is
\* another await.
DownloadGet(t, ok) ==
    /\ t \in tmp.tasks /\ t.pc = "get"
    /\ tmp' =
         IF ok
           THEN [TaskStep(t, [t EXCEPT !.pc = "written", !.made = @ \cup {VideoPath(t.vid)}])
                   EXCEPT !.files = WriteFile(@, VideoPath(t.vid), t.id)]
           ELSE TaskRaise(t, t)
    /\ UNCHANGED <<db, usedIds, deploy, reqs, jobs, poll, editor, calc>>

\* What the media work of a task can come to.
WorkOutcomes == {"ok", "failed"}

\* download_video returns and the task runs to its next await, the webhook
\* POST.  Transcription: extract_audio writes the audio file, Whisper reads
\* it.  Render: generate_srt_file writes the track, FFmpeg writes the output.
\* Filmstrip: FFmpeg writes the sprite sheet.  FFmpeg fails when the video
\* file is not there.
TaskWork(t, outcome) ==
    /\ t \in tmp.tasks /\ t.pc = "written"
    /\ outcome = "ok" => FileExists(tmp.files, VideoPath(t.vid))
    /\ LET v == VideoPath(t.vid)
           t1 == [t EXCEPT !.video_path = Some(v)]
       IN tmp' =
            CASE t.type = "transcription" /\ outcome = "ok" ->
                   [TaskStep(t, [t1 EXCEPT !.pc = "posting", !.audio_path = Some(AudioPath(v)),
                                           !.made = @ \cup {AudioPath(v)}])
                      EXCEPT !.files = WriteFile(@, AudioPath(v), t.id)]
              [] t.type = "render" /\ outcome = "ok" ->
                   [TaskStep(t, [t1 EXCEPT !.pc = "posting", !.srt_path = Some(SrtPath(t.vid)),
                                           !.output_path = Some(RenderedPath(t.vid)),
                                           !.made = @ \cup {SrtPath(t.vid), RenderedPath(t.vid)}])
                      EXCEPT !.files = WriteFile(WriteFile(@, SrtPath(t.vid), t.id),
                                                 RenderedPath(t.vid), t.id)]
              [] t.type = "render" /\ outcome = "failed" ->
                   [TaskRaise(t, [t1 EXCEPT !.srt_path = Some(SrtPath(t.vid)),
                                            !.output_path = Some(RenderedPath(t.vid)),
                                            !.made = @ \cup {SrtPath(t.vid)}])
                      EXCEPT !.files = WriteFile(@, SrtPath(t.vid), t.id)]
              [] t.type = "filmstrip" /\ outcome = "ok" ->
                   [TaskStep(t, [t1 EXCEPT !.pc = "posting", !.output_path = Some(SpritePath(t.vid)),
                                           !.made = @ \cup {SpritePath(t.vid)}])
                      EXCEPT !.files = WriteFile(@, SpritePath(t.vid), t.id)]
              [] OTHER -> TaskRaise(t, t1)
    /\ UNCHANGED <<db, usedIds, deploy, reqs, jobs, poll, editor, calc>>

\* The "completed" POST returns or raises.  Transcription and render: after
\* an answer that raise_for_status accepts the finally block cleans up, and
\* anything else goes to the except block.  Filmstrip: after an answer the
\* last statement cleans up, and a POST that raises ends the task.
TaskPosted(t, ok) ==
    /\ t \in tmp.tasks /\ t.pc = "posting"
    /\ tmp' = IF ok THEN TaskCleanup(t) ELSE TaskRaise(t, t)
    /\ UNCHANGED <<db, usedIds, deploy, reqs, jobs, poll, editor, calc>>

\* The "failed" POST of the except block returns or raises (the error is
\* swallowed), and the finally block cleans up.
TaskFailPosted(t) ==
    /\ t \in tmp.tasks /\ t.pc = "failing"
    /\ tmp' = TaskCleanup(t)
    /\ UNCHANGED <<db, usedIds, deploy, reqs, jobs, poll, editor, calc>>

\* ---------------------------------------------------------------- specification
Reqs == BagToSet(reqs)
Jobs == BagToSet(jobs)

Next ==
    \/ \E id \in Vids : Upload(id)
    \/ \E id \in Vids : RenderFind(id)
    \/ \E r \in Reqs : RenderSetRendering(r)
    \/ \E r \in Reqs : RenderFetchOk(r)
    \/ \E r \in Reqs : RenderFetchFail(r)
    \/ \E r \in Reqs : RenderCatch(r)
    \/ \E id \in Vids : RenderLocalFind(id)
    \/ \E r \in Reqs : RenderLocalDone(r)
    \/ \E r \in Reqs : RenderLocalFail(r)
    \/ \E r \in Reqs : RenderLocalCatch(r)
    \/ \E id \in Vids : TranscribeFind(id)
    \/ \E r \in Reqs : TranscribeSetTranscribing(r)
    \/ \E r \in Reqs : TranscribeDone(r)
    \/ \E r \in Reqs : TranscribeFail(r)
    \/ \E r \in Reqs : TranscribeCatch(r)
    \/ \E id \in Vids : TranscribeDispatchFind(id)
    \/ \E r \in Reqs : TranscribeDispatchSetTranscribing(r)
    \/ \E r \in Reqs : TranscribeDispatchFetchOk(r)
    \/ \E r \in Reqs : TranscribeDispatchFetchFail(r)
    \/ \E r \in Reqs : Respond(r)
    \/ \E id \in Vids, body \in PatchBodies : Patch(id, body)
    \/ \E id \in Vids : Delete(id)
    \/ \E id \in Vids : MockSubtitles(id)
    \/ \E j \in Jobs : JobSucceed(j)
    \/ \E j \in Jobs : JobFail(j)
    \/ \E j \in Jobs : TranscriptionWebhook(j)
    \/ \E j \in Jobs : RenderWebhook(j)
    \/ \E j \in Jobs : WebhookLost(j)
    \/ \E j \in Jobs : JobReportError(j)
    \/ \E j \in Jobs : JobEnd(j)

Spec == Init /\ [][Next]_vars

\* The filmstrip side channel: upload, the generate route, the Worker's
\* endpoint and task, the filmstrip webhook and the record routes.
FilmstripInit ==
    /\ db = [v \in {} |-> NewVideo]
    /\ usedIds = {}
    /\ deploy = [render |-> "worker", transcribe |-> "worker"]
    /\ reqs = EmptyBag
    /\ jobs = EmptyBag
    /\ poll = PollIdle
    /\ editor = EditorIdle
    /\ calc = CalcIdle
    /\ tmp = TmpIdle

FilmstripNext ==
    \/ \E id \in Vids : Upload(id)
    \/ \E id \in Vids : FilmstripGenerateFind(id)
    \/ \E r \in Reqs : FilmstripGenerateFetchOk(r)
    \/ \E r \in Reqs : FilmstripGenerateFetchFail(r)
    \/ \E id \in ForeignIds, h \in Headers : WorkerGenerateFilmstrip(id, h)
    \/ \E r \in Reqs : Respond(r)
    \/ \E j \in Jobs : FilmstripJobSucceed(j)
    \/ \E j \in Jobs : FilmstripJobFail(j)
    \/ \E j \in Jobs : FilmstripWebhook(j)
    \/ \E j \in Jobs : WebhookLost(j)
    \/ \E j \in Jobs : FilmstripJobEnd(j)
    \/ \E id \in Vids, body \in FilmstripPatchBodies : Patch(id, body)
    \/ \E id \in Vids : MockSubtitles(id)
    \/ \E id \in Vids : Delete(id)

FilmstripSpec == FilmstripInit /\ [][FilmstripNext]_vars

\* One polling session of the editor.
PollNext ==
    \/ \E answer \in CacheAnswers : CacheCheck(answer)
    \/ \E ok \in BOOLEAN : Extracted(ok)
    \/ \E answer \in GenerateAnswers : Generated(answer)
    \/ startPolling
    \/ TimePasses
    \/ Tick
    \/ \E answer \in Answers : Response(answer)
    \/ Unmount

PollSpec == FilmstripInit /\ [][PollNext]_vars

\* The hook in a component whose props change while it is mounted.
PollRerunNext ==
    \/ PollNext
    \/ Reinitialize

PollRerunSpec == FilmstripInit /\ [][PollRerunNext]_vars

EditorNext ==
    \/ \E op \in EditorOps : EditorOperation(op)
    \/ \E q \in BagToSet(editor.posts), ok \in BOOLEAN : EditorOperationAnswer(q, ok)
    \/ \E t \in editor.timers : EditorPollTick(t)
    \/ \E t \in editor.gets, answer \in EditorAnswers, elapsed \in EditorElapsed :
         EditorPollAnswer(t, answer, elapsed)
    \/ EditorCommit
    \/ EditorUnmount

EditorSpec == FilmstripInit /\ [][EditorNext]_vars

CalcNext ==
    \/ \E duration \in Durations : FrameCount(duration)
    \/ \E trigger \in Triggers, media \in {None} \cup {Some(d) : d \in Durations} :
         FilmstripFrames(trigger, media)
    \/ \E hex \in Colours, opacity \in Opacities : ColourConversion(hex, opacity)
    \/ \E style \in Styles : BurnInStyle(style)

CalcSpec == FilmstripInit /\ [][CalcNext]_vars

\* The Worker's tasks and its temporary directory.
TmpNext ==
    \/ \E type \in TaskTypes, id \in Vids : TaskAccept(type, id)
    \/ \E t \in tmp.tasks, ok \in BOOLEAN : DownloadGet(t, ok)
    \/ \E t \in tmp.tasks, outcome \in WorkOutcomes : TaskWork(t, outcome)
    \/ \E t \in tmp.tasks, ok \in BOOLEAN : TaskPosted(t, ok)
    \/ \E t \in tmp.tasks : TaskFailPosted(t)

TmpSpec == FilmstripInit /\ [][TmpNext]_vars

\* ---------------------------------------------------------------- properties
\* The status of a record changes in this step.
StatusChanges(id) ==
    /\ id \in DOMAIN db /\ id \in DOMAIN db'
    /\ db'[id].status # db[id].status

\* A step of a transcribe or render request the user sent.
UserOperationStep ==
    \E r \in Reqs :
        \/ RenderSetRendering(r) \/ RenderFetchOk(r) \/ RenderFetchFail(r) \/ RenderCatch(r)
        \/ RenderLocalDone(r) \/ RenderLocalFail(r) \/ RenderLocalCatch(r)
        \/ TranscribeSetTranscribing(r) \/ TranscribeDone(r) \/ TranscribeFail(r)
        \/ TranscribeCatch(r)
        \/ TranscribeDispatchSetTranscribing(r) \/ TranscribeDispatchFetchOk(r)
        \/ TranscribeDispatchFetchFail(r)

\* C1: at every instant, at most one transcription job and at most one render
\* job per video is in progress: a request that arrives while the job's
\* in-progress status is set sends no second job to the Worker.
C1_OneJobPerType ==
    \A id \in Vids : \A type \in {"transcription", "render"} : JobsInProgress(type, id) <= 1

\* C2: every change of status follows the transition table.
TransitionTable ==
    { <<"uploading", "ready">>, <<"uploading", "transcribing">>,
      <<"transcribing", "ready">>, <<"transcribing", "failed">>,
      <<"ready", "rendering">>,
      <<"rendering", "completed">>, <<"rendering", "failed">>,
      <<"completed", "rendering">>,
      <<"failed", "transcribing">>, <<"failed", "rendering">> }

C2_TransitionTable ==
    [][\A id \in Vids :
         StatusChanges(id) => <<db[id].status, db'[id].status>> \in TransitionTable]_vars

C5_ThreeTriggers ==
    [][\A id \in Vids :
         StatusChanges(id) =>
            \/ \E r \in Reqs :
                 \/ RenderSetRendering(r)
                 \/ TranscribeSetTranscribing(r)
                 \/ TranscribeDispatchSetTranscribing(r)
                 \/ r.thrown = "dispatch" /\ RenderCatch(r)
            \/ \E j \in Jobs : TranscriptionWebhook(j) \/ RenderWebhook(j)]_vars

\* C6: a status "completed" or "failed" changes only in a step of a transcribe
\* or render operation the user started.
C6_TerminalSticky ==
    [][\A id \in Vids :
         (StatusChanges(id) /\ db[id].status \in {"completed", "failed"})
         => UserOperationStep]_vars

\* C7: a transcription or render webhook with status "failed" leaves the
\* status "failed".
C7_FailedWebhookSetsFailed ==
    [][\A j \in Jobs :
         (/\ TranscriptionWebhook(j) \/ RenderWebhook(j)
          /\ WebhookBody(j).status = "failed"
          /\ j.vid \in DOMAIN db')
         => db'[j.vid].status = "failed"]_vars

\* C8: a transcription webhook with status "completed" and a subtitles list
\* sets status "ready" and makes the caption track exactly that list.
C8_TranscriptionCompletedReplacesTrack ==
    [][\A j \in Jobs :
         (/\ TranscriptionWebhook(j)
          /\ WebhookBody(j).status = "completed"
          /\ WebhookBody(j).subtitles # None
          /\ j.vid \in DOMAIN db')
         => /\ db'[j.vid].status = "ready"
            /\ db'[j.vid].subtitles = Some(The(WebhookBody(j).subtitles))]_vars

\* C8 witness: the webhook {status: "completed", subtitles: [Hi]} was answered
\* 200 and the record is "ready" with the track [Hi].
C8_Witness ==
    \E j \in Jobs :
        /\ j.type = "transcription" /\ j.pc = "notified" /\ j.resp = 200
        /\ j.sent = "completed" /\ j.subtitles = Some(<<Hi>>)
        /\ Exists(j.vid) /\ db[j.vid].status = "ready" /\ db[j.vid].subtitles = Some(<<Hi>>)

\* C9: a render webhook with status "completed" sets outputUrl to the reported
\* location and status "completed", and outputUrl is null until a render has
\* completed successfully.
C9_OutputUrlOnlyFromRender ==
    [][/\ \A j \in Jobs :
            (/\ RenderWebhook(j)
             /\ WebhookBody(j).status = "completed"
             /\ j.vid \in DOMAIN db')
            => /\ db'[j.vid].status = "completed"
               /\ db'[j.vid].outputUrl = WebhookBody(j).outputUrl
       /\ \A id \in Vids :
            (/\ id \in DOMAIN db'
             /\ db'[id].outputUrl # None
             /\ id \in DOMAIN db => db[id].outputUrl = None)
            => \/ \E j \in Jobs : RenderWebhook(j) /\ WebhookBody(j).status = "completed"
               \/ \E r \in Reqs : RenderLocalDone(r)]_vars

C11_LastWebhookWins ==
    [][\A j \in Jobs :
         (/\ TranscriptionWebhook(j) \/ RenderWebhook(j)
          /\ j.vid \in DOMAIN db)
         => /\ j.vid \in DOMAIN db'
            /\ db'[j.vid].status =
                  IF Truthy(WebhookBody(j).error) THEN "failed"
                  ELSE IF j.type = "transcription" THEN "ready" ELSE "completed"
            /\ \E k \in Jobs' : k.pc = "notified" /\ k.resp \in {200, 500}]_vars

\* C11 witness: of two render jobs of one video, one has reported "failed"
\* with an error and one "completed"; both were answered 200 and the record
\* holds what the "completed" one reported.
C11_Witness ==
    \E j1 \in Jobs : \E j2 \in Jobs :
        /\ j1.type = "render" /\ j2.type = "render" /\ j1.vid = j2.vid
        /\ j1.pc = "notified" /\ j1.sent = "failed" /\ Truthy(j1.error) /\ j1.resp = 200
        /\ j2.pc = "notified" /\ j2.sent = "completed" /\ j2.resp = 200
        /\ Exists(j2.vid)
        /\ db[j2.vid].status = "completed" /\ db[j2.vid].outputUrl = j2.outputUrl

\* C12: a transcription or render webhook whose videoId names no record
\* changes nothing and is answered with a success status: the Worker is not
\* told that anything failed.
C12_MissingRecordSilentNoOp ==
    [][\A j \in Jobs :
         (/\ TranscriptionWebhook(j) \/ RenderWebhook(j)
          /\ j.vid \notin DOMAIN db)
         => /\ db' = db
            /\ \E code \in 200..299 :
                 jobs' = Replace(jobs, j, [j EXCEPT !.pc = "notified", !.resp = code])]_vars

\* C16: a transcribe or render handler returns success while the status is
\* still the in-progress one it persisted, and no step of a handler writes
\* "ready" or "completed": those come from a webhook.
C16_HandlersDoNotWait ==
    [][/\ \A r \in Reqs :
            (/\ r.kind \in {"transcribe", "render"} /\ r.pc # "returned"
             /\ reqs' = Replace(reqs, r, Return(r, 200))
             /\ r.vid \in DOMAIN db')
            => db'[r.vid].status = IF r.kind = "transcribe" THEN "transcribing" ELSE "rendering"
       /\ \A id \in Vids :
            (StatusChanges(id) /\ db'[id].status \in {"ready", "completed"})
            => ~UserOperationStep]_vars

\* C17: every step that sends a dispatch call to the Worker sends it with the
\* header `Bearer <WORKER_SECRET>`.
C17_EveryDispatchCarriesSecret ==
    [][/\ \A id \in Vids :
            Upload(id) => UploadAuthorization = Bearer(WorkerSecret)
       /\ \A r \in Reqs :
            (\/ RenderFetchOk(r) \/ RenderFetchFail(r)
             \/ TranscribeDispatchFetchOk(r) \/ TranscribeDispatchFetchFail(r))
            => DispatchAuthorization = Bearer(WorkerSecret)]_vars

\* C13: a filmstrip webhook, "completed" or "failed", leaves the status of
\* every record as it was.
C13_FilmstripWebhookKeepsStatus ==
    [][\A j \in Jobs :
         FilmstripWebhook(j)
         => \A id \in DOMAIN db : id \in DOMAIN db' /\ db'[id].status = db[id].status]_vars

\* C13 witness: a "completed" and a "failed" filmstrip webhook of one video
\* were answered, the record holds the reported filmstrip and its status is
\* still "failed".
C13_Witness ==
    \E j1 \in Jobs : \E j2 \in Jobs :
        /\ j1.type = "filmstrip" /\ j2.type = "filmstrip" /\ j1.vid = j2.vid
        /\ j1.pc = "notified" /\ j1.sent = "completed" /\ j1.resp = 200
        /\ j2.pc = "notified" /\ j2.sent = "failed" /\ j2.resp = 500
        /\ Exists(j1.vid)
        /\ db[j1.vid].filmstripUrl = j1.filmstripUrl
        /\ db[j1.vid].status = "failed"

\* C14: once the filmstrip URL of a record is set, the URL and the metadata
\* never change.
C14_FilmstripImmutable ==
    [][\A id \in Vids :
         (/\ id \in DOMAIN db /\ id \in DOMAIN db'
          /\ db[id].filmstripUrl # None)
         => /\ db'[id].filmstripUrl = db[id].filmstripUrl
            /\ db'[id].filmstripMetadata = db[id].filmstripMetadata]_vars

\* C15: a generation trigger dispatches a filmstrip job only when no filmstrip
\* job of the video has been dispatched and is still in progress.
C15_FilmstripDispatchedOnce ==
    [][/\ \A r \in Reqs :
            FilmstripGenerateFetchOk(r) => JobsInProgress("filmstrip", r.vid) = 0
       /\ \A id \in Vids :
            (Upload(id) /\ jobs' # jobs) => JobsInProgress("filmstrip", id) = 0]_vars

\* C18: the Worker enqueues a job exactly when the Authorization header is
\* "Bearer " followed by the secret; any other header is answered 401 and
\* enqueues nothing.
C18_WorkerAcceptsOnlyBearerSecret ==
    [][\A id \in ForeignIds : \A h \in Headers :
         WorkerGenerateFilmstrip(id, h)
         => IF h = Bearer(WorkerSecret)
              THEN jobs' = Add(jobs, NewJob("filmstrip", id))
              ELSE /\ jobs' = jobs
                   /\ reqs' = Add(reqs, Return(NewReq("generate-filmstrip", id, "verify"), 401))]_vars

\* C19: more than MAX_DURATION (300000 ms) after a polling session started,
\* no polling timer is active.
C19_PollerStopsByDeadline ==
    (poll.started /\ poll.now - poll.pollingStartTime > MAX_DURATION) => poll.timer = None

C21_AtMostMaxRetriesRequests ==
    [][/\ poll'.requests <= MAX_RETRIES
       /\ (Tick /\ poll.requests = MAX_RETRIES)
            => /\ poll'.timer = None
               /\ poll'.requests = poll.requests
               /\ poll'.inflight = poll.inflight]_vars

\* C21 witness: a mounted session that sent 90 requests within the global
\* timeout and whose timer was stopped by the retry limit.
C21_Witness ==
    /\ poll.started /\ poll.mounted
    /\ poll.requests = MAX_RETRIES
    /\ poll.timer = None
    /\ poll.error = None
    /\ poll.status = "canvas-ready"
    /\ poll.now - poll.pollingStartTime <= MAX_DURATION

\* C22: an answer that is neither 200 nor 404 (or a network error) leaves the
\* timer, the interval, the attempt count and the shown state as they were.
C22_ErrorKeepsSchedule ==
    [][Response("error")
         => /\ poll'.timer = poll.timer
            /\ poll'.currentInterval = poll.currentInterval
            /\ poll'.pollingAttempts = poll.pollingAttempts
            /\ poll'.status = poll.status
            /\ poll'.error = poll.error]_vars

\* C22 witness: in a session whose answers were all errors the timer still
\* runs and a third check has sent its request.
C22_Witness ==
    /\ poll.outage /\ poll.mounted
    /\ poll.timer # None
    /\ poll.requests = 3
    /\ poll.inflight = 0
    /\ poll.currentInterval = INITIAL_INTERVAL

\* C24: once the component is unmounted no polling timer is active.
C24_NoTimerAfterTeardown ==
    ~poll.mounted => poll.timer = None

C26_GenerationIndependentOfExtraction ==
    (poll.cache = "miss" /\ poll.extract \in {"running", "failed"})
      => poll.generate # "none"

\* C23: at most one polling timer for the tracked video is active at any
\* time (the filmstrip poller keeps one deadline; the editor's status poller
\* keeps a set of intervals).
C23_AtMostOneTimer ==
    Cardinality(editor.timers) <= 1

\* C27: for every trigger that dispatches the filmstrip job, the frame count
\* the Worker computes is the frame count the local extractor computes for
\* the video.
C27_WorkerFrameCountEqualsLocal ==
    (calc.op = "filmstrip" /\ calc.worker # None) => The(calc.worker) = calc.local

\* C28: calculateFrameCount(d) is 15 for d <= 30, 20 for 30 < d <= 180, 25
\* for 180 < d <= 600 and 30 for d > 600; it never decreases when d grows.
C28_FrameCountTable ==
    calc.op = "calculateFrameCount"
      => LET d == calc.duration
             n == calc.frameCount
         IN /\ n \in {15, 20, 25, 30}
            /\ n = 15 <=> LessEq(d, 30)
            /\ n = 20 <=> ~LessEq(d, 30) /\ LessEq(d, 180)
            /\ n = 25 <=> ~LessEq(d, 180) /\ LessEq(d, 600)
            /\ n = 30 <=> ~LessEq(d, 600)
            /\ \A e \in Durations :
                  e[1] * d[2] <= d[1] * e[2] => calculateFrameCount(e) <= n

\* C28 witness: 180.5 seconds give 25 frames.
C28_Witness ==
    /\ calc.op = "calculateFrameCount"
    /\ calc.duration = Rat(361, 2)
    /\ calc.frameCount = 25

\* C29: for every opacity o the alpha byte of the converted colour is
\* round((1 - o) * 255), in the Orchestrator's conversion and in the Worker's.
C29_AlphaIsRounded ==
    calc.op = "colour"
      => LET alpha == ToHex2(MathRound(Times(OneMinus(calc.opacity), 255)))
         IN /\ SubSeq(calc.orchestrator, 2, 3) = alpha
            /\ SubSeq(calc.worker, 2, 3) = alpha

C34_ChecksNeverOverlap ==
    poll.inflight <= 1

\* C36: the webhook handlers look neither at the record's status nor at which
\* job reports.  When a job reports while a later job of the same type for
\* the same video is unfinished, the handler writes that report over the
\* record exactly as it would any other.
C36_StaleWebhookLands ==
    [][\A j \in Jobs : \A k \in Jobs :
         (/\ ~j.superseding /\ k.superseding
          /\ k.type = j.type /\ k.vid = j.vid
          /\ j.vid \in DOMAIN db
          /\ TranscriptionWebhook(j) \/ RenderWebhook(j))
         => db' = Update(db, j.vid,
                    IF j.type = "transcription"
                      THEN TranscriptionWebhookData(WebhookBody(j))
                      ELSE RenderWebhookData(WebhookBody(j)))]_vars

\* C36 witness: the earlier of two transcription jobs of a video has reported
\* "completed" and was answered 200 while the later one has not started; no
\* handler is running, and the record is "ready" with the earlier job's track.
C36_Witness ==
    \E j \in Jobs : \E k \in Jobs :
        /\ j.type = "transcription" /\ k.type = "transcription" /\ j.vid = k.vid
        /\ ~j.superseding /\ k.superseding
        /\ j.pc = "notified" /\ j.sent = "completed" /\ j.resp = 200
        /\ k.pc = "queued"
        /\ reqs = EmptyBag
        /\ Exists(j.vid)
        /\ db[j.vid].status = "ready" /\ db[j.vid].subtitles = j.subtitles

\* C37: a Worker task posts at most one webhook, a "completed" one or a
\* "failed" one: a task whose POST has returned or raised is not posting
\* again in the next state; it is as it was, or it has ended.
C37_AtMostOneWebhookPerJob ==
    [][\A j \in Jobs :
         j.pc = "notified"
         => \/ j \in BagToSet(jobs')
            \/ jobs' = Remove(jobs, j)]_vars

\* C40: when the webhook of a transcription or render job reaches the
\* Orchestrator while the video is in that job's in-progress status, the
\* record leaves that status: it becomes "failed" for a reported error and
\* "ready" (transcription) or "completed" (render) otherwise.
C40_WebhookEndsInProgress ==
    [][\A j \in Jobs :
         (/\ TranscriptionWebhook(j) \/ RenderWebhook(j)
          /\ j.vid \in DOMAIN db
          /\ db[j.vid].status = (IF j.type = "transcription" THEN "transcribing" ELSE "rendering"))
         => db'[j.vid].status \in
              (IF j.type = "transcription" THEN {"ready", "failed"} ELSE {"completed", "failed"})]_vars

\* C40 witness: a render job's "failed" report was answered 200 and the
\* record, with no other job or handler around, is "failed".
C40_Witness ==
    /\ reqs = EmptyBag
    /\ \E j \in Jobs :
         /\ jobs = SetToBag({j})
         /\ j.type = "render" /\ j.pc = "notified" /\ j.sent = "failed" /\ j.resp = 200
         /\ Exists(j.vid) /\ db[j.vid].status = "failed"

\* C35: a callback of the editor's status poller that runs more than
\* EditorPollTimeout ms after polling began stops the poller, whatever the
\* GET brought.
C35_EditorPollerTimesOut ==
    [][\A t \in editor.gets : \A answer \in EditorAnswers : \A elapsed \in EditorElapsed :
         (/\ elapsed > EditorPollTimeout
          /\ t \in editor.timers
          /\ EditorPollAnswer(t, answer, elapsed))
         => t \notin editor'.timers]_vars

\* C38: when a callback of a mounted editor's status poller stops the poller
\* on the terminal status of the operation that started it ("ready" or
\* "failed" for transcribe, "completed" or "failed" for render), the flag of
\* that operation is false after the updates the callback queued.
C38_IndicatorClearedAtStop ==
    [][\A t \in editor.gets : \A answer \in EditorAnswers : \A elapsed \in EditorElapsed :
         (/\ editor.mounted
          /\ answer \in (IF t.op = "transcribe" THEN {"ready", "failed"}
                                                 ELSE {"completed", "failed"})
          /\ EditorPollAnswer(t, answer, elapsed))
         => ~Pending(editor', IF t.op = "transcribe" THEN "isTranscribing"
                                                      ELSE "isRendering")]_vars

\* C39: once the hook shows filmstrip-ready it shows filmstrip-ready in every
\* later state of the mount, also after the effect has run again.
C39_FilmstripReadyIsFinal ==
    [][poll.status = "filmstrip-ready" => poll'.status = "filmstrip-ready"]_vars

\* C31: when a Worker task ends, whether a step of it failed or not, no file
\* that it wrote is left in the temporary directory.
C31_NoFileLeftAtTaskEnd ==
    [][\A t \in tmp.tasks :
         t \notin tmp'.tasks => \A f \in tmp'.files : f[2] # t.id]_vars

\* C32: every file a running task has written and not cleaned up is in the
\* temporary directory as that task wrote it: no other task has replaced or
\* removed it.
C32_TasksShareNoFiles ==
    \A t \in tmp.tasks : \A path \in t.made : <<path, t.id>> \in tmp.files
====
